---- MODULE Spec2Model ----
(***************************************************************************)
(* Model of the "Quem Sou Eu?" guessing game (src/paginas/p1.py).          *)
(*                                                                         *)
(* Every browser session owns a Streamlit st.session_state; the page       *)
(* script offers the button "Iniciar Novo Jogo" on every render and the    *)
(* chat input only when the key 'mensagens' is in st.session_state.  The   *)
(* two handlers (iniciar_novo_jogo, the st.chat_input block) are the       *)
(* actions; the persona generator is memoized by st.cache_data, one table  *)
(* for the whole process, keyed by the value of its argument.              *)
(***************************************************************************)
EXTENDS Integers, Sequences, FiniteSets, TLC

\* ------------------------------------------------------------------ bounds
\* Successful rounds one session may start.
MaxRodadas == 2
\* Length of the message log up to which a message may still be submitted.
MaxMensagens == 3
\* Entries a conversation context may hold when a message is submitted to it.
MaxHistory == 2

\* With two players: rounds one session may start, length of the log and
\* entries of the context up to which a message may still be submitted.
MaxRodadasDuas == 1
MaxMensagensDuas == 1
MaxHistoryDuas == 0

\* ------------------------------------------------------------------ values
\* Browser sessions, each with its own st.session_state.
Sessoes == {1, 2}

\* JSON values of the payload fields: a string, or null (a non-string).
Str(txt) == [t |-> "str", s |-> txt]
Nulo == [t |-> "null", s |-> ""]

\* The keys iniciar_novo_jogo requires of the payload.
required_keys == {"personagem", "descricao", "estilo", "saudacao"}

\* A decoded JSON payload: a dict (its keys and their values) or another
\* JSON value (a list).
Dict(f) == [tipo |-> "dict", campos |-> f]
SemCampos == [k \in {} |-> Nulo]
Lista == [tipo |-> "list", campos |-> SemCampos]
\* No value: the session key is absent.
Nenhum == [tipo |-> "nenhum", campos |-> SemCampos]

Persona(nome, saud) ==
    Dict([k \in required_keys |->
            CASE k = "personagem" -> nome
              [] k = "descricao" -> Str("bio")
              [] k = "estilo" -> Str("Formal")
              [] k = "saudacao" -> saud])

DomPedro == Persona(Str("Dom Pedro II"), Str("Ola, viajante."))
Cleopatra == Persona(Str("Cleopatra"), Str("Saudacoes."))
\* All four keys, the greeting an empty string.
SaudacaoVazia == Persona(Str("Zumbi"), Str(""))
\* All four keys, the name null.
NomeNulo == Persona(Nulo, Str("Oi."))
\* The key 'saudacao' is missing.
SemSaudacao ==
    Dict([k \in required_keys \ {"saudacao"} |->
            IF k = "personagem" THEN Str("Cleopatra") ELSE Str("x")])

\* What json.loads(response.text) can return when the remote call answers
\* with JSON text.
Payloads == {DomPedro, Cleopatra, SaudacaoVazia, NomeNulo, SemSaudacao, Lista}

\* Texts the player can submit in the chat input ("" is an empty input).
Prompts == {"", "Quem?"}
\* Texts the conversation call can answer with.
Respostas == {"Talvez."}

\* ------------------------------------------------------------------- state
VARIABLES
    chaves,             \* chaves[s]: the keys present in st.session_state
    mensagens,          \* st.session_state.mensagens
    personagens_usados, \* st.session_state.personagens_usados
    personagem_secreto, \* st.session_state.personagem_secreto
    chat,               \* st.session_state.chat
    cache,              \* the st.cache_data table of gerar_novo_personagem
    rodadas,            \* history: the personas of the successful rounds
    ultimo              \* history: the last handler run and how it ended

vars == <<chaves, mensagens, personagens_usados, personagem_secreto, chat,
          cache, rodadas, ultimo>>

\* No conversation context.
SemChat == [id |-> <<0, 0>>, sistema |-> Nenhum, history |-> <<>>]

Msg(role, content) == [role |-> role, content |-> content]

SemEvento ==
    [op |-> "nenhum", fim |-> "nenhum", lista |-> <<>>, payload |-> Nenhum,
     remoto |-> FALSE, prompt |-> ""]

Init ==
    /\ chaves = [s \in Sessoes |-> {}]
    /\ mensagens = [s \in Sessoes |-> <<>>]
    /\ personagens_usados = [s \in Sessoes |-> <<>>]
    /\ personagem_secreto = [s \in Sessoes |-> Nenhum]
    /\ chat = [s \in Sessoes |-> SemChat]
    /\ cache = {}
    /\ rodadas = [s \in Sessoes |-> <<>>]
    /\ ultimo = [s \in Sessoes |-> SemEvento]


\* ------------------------------------------------- gerar_novo_personagem
\* An entry of the st.cache_data table: the argument and the value returned.
Entrada(lista, p) == [lista |-> lista, payload |-> p]

CacheTem(c, lista) == \E e \in c : e.lista = lista
CacheDe(c, lista) == (CHOOSE e \in c : e.lista = lista).payload

\* ", ".join(lista_a_evitar) raises TypeError on an item that is no string.
JoinFalha(lista) == \E i \in 1..Len(lista) : lista[i].t # "str"

Resultado(fim, p, remoto) == [fim |-> fim, payload |-> p, remoto |-> remoto]

\* The body of gerar_novo_personagem, run on a cache miss: the join, the
\* remote call (which may raise) and json.loads (which raises on text
\* that is no JSON).
ChamadaRemota(lista) ==
    IF JoinFalha(lista)
    THEN {Resultado("TypeError", Nenhum, FALSE)}
    ELSE {Resultado("retorna", p, TRUE) : p \in Payloads}
         \cup {Resultado("ErroDeServico", Nenhum, TRUE),
               Resultado("JSONDecodeError", Nenhum, TRUE)}

\* The decorator is left out: every call runs the body.
gerar_novo_personagem_mut(c, lista) == ChamadaRemota(lista)

\* The ways a call gerar_novo_personagem(lista) can end under
\* @st.cache_data: a stored value is returned without running the body.
gerar_novo_personagem(c, lista) ==
    IF CacheTem(c, lista)
    THEN {Resultado("retorna", CacheDe(c, lista), FALSE)}
    ELSE ChamadaRemota(lista)

\* st.cache_data stores the value a call returned; a call that raised
\* stores nothing.
CacheApos(c, lista, r) ==
    IF r.fim = "retorna" /\ r.remoto THEN c \cup {Entrada(lista, r.payload)}
    ELSE c

\* ------------------------------------------------------- st.session_state
\* The value is kept in one place for the whole process, whoever writes.
Gravar_mut(f, s, v) == [t \in DOMAIN f |-> v]

\* An assignment to a key of st.session_state in a script run of session
\* s: it writes the state of that session and of no other.
Gravar(f, s, v) == [f EXCEPT ![s] = v]

\* ----------------------------------------------------- iniciar_novo_jogo
\* The log is kept across the request (line 61 left out).
ReiniciarMensagens_mut(m) == m

\* Line 61: st.session_state.mensagens = [].
ReiniciarMensagens(m) == <<>>

\* A fresh empty list is given to the generator.
ListaAEvitar_mut(usados) == <<>>

\* Line 67: the argument given to the generator.
ListaAEvitar(usados) == usados

\* Line 72: the payload is a dict that has every required key.
Valido(p) == p.tipo = "dict" /\ required_keys \subseteq DOMAIN p.campos

\* The list is replaced by one that holds the new name alone.
AnexarUsado_mut(usados, p) == <<p.campos["personagem"]>>

\* The append of line 82 is left out.
AnexarUsado_esquecido(usados, p) == usados

\* Line 82: personagens_usados.append(novo_personagem['personagem']).
AnexarUsado(usados, p) == Append(usados, p.campos["personagem"])

\* Lines 104-107: a new chat, its system instruction built from the
\* persona; the n-th context created in session s.
NovoChat(s, n, p) == [id |-> <<s, n>>, sistema |-> p, history |-> <<>>]

\* Lines 110-111: the greeting is appended to the log.
AnexarSaudacao(m, p) == Append(m, Msg("assistant", p.campos["saudacao"].s))

Evento(op, fim, lista, p, remoto, prompt) ==
    [op |-> op, fim |-> fim, lista |-> lista, payload |-> p,
     remoto |-> remoto, prompt |-> prompt]

\* The button "Iniciar Novo Jogo": the whole of iniciar_novo_jogo.
IniciarNovoJogo(s) ==
    LET lista == ListaAEvitar(personagens_usados[s]) IN
       \E r \in gerar_novo_personagem(cache, lista) :
         \* a session starts at most MaxRodadas rounds
         /\ (r.fim = "retorna" /\ Valido(r.payload)) =>
                Len(rodadas[s]) < MaxRodadas
         /\ cache' = CacheApos(cache, lista, r)
         /\ IF r.fim = "retorna" /\ Valido(r.payload)
            THEN /\ chaves' = Gravar(chaves, s,
                        {"mensagens", "personagens_usados",
                         "personagem_secreto", "chat"})
                 /\ personagem_secreto' =
                        Gravar(personagem_secreto, s, r.payload)
                 /\ personagens_usados' =
                        Gravar(personagens_usados, s,
                            AnexarUsado(personagens_usados[s], r.payload))
                 /\ chat' = Gravar(chat, s,
                        NovoChat(s, Len(rodadas[s]) + 1, r.payload))
                 /\ mensagens' = Gravar(mensagens, s,
                        AnexarSaudacao(ReiniciarMensagens(mensagens[s]),
                                       r.payload))
                 /\ rodadas' = [rodadas EXCEPT ![s] = Append(@, r.payload)]
                 /\ ultimo' = [ultimo EXCEPT ![s] =
                        Evento("iniciar", "ok", lista, r.payload, r.remoto, "")]
            ELSE \* the generator raised (lines 62-64 have run), or the
                 \* payload was refused (st.error and return, lines 73-76)
                 /\ chaves' = Gravar(chaves, s,
                        chaves[s] \cup {"mensagens", "personagens_usados"})
                 /\ mensagens' = Gravar(mensagens, s,
                        ReiniciarMensagens(mensagens[s]))
                 /\ ultimo' = [ultimo EXCEPT ![s] =
                        Evento("iniciar",
                               IF r.fim = "retorna" THEN "st.error" ELSE r.fim,
                               lista, r.payload, r.remoto, "")]
                 /\ UNCHANGED <<personagens_usados, personagem_secreto, chat,
                                rodadas>>

\* ------------------------------------------------------ the chat handler
\* Every message is sent to a chat started anew (another context).
send_message_mut(c, prompt) ==
    {[fim |-> "ok", texto |-> r,
      chat |-> [c EXCEPT !.id = <<c.id[1], c.id[2] + 1>>,
                         !.history =
                             @ \o <<Msg("user", prompt), Msg("model", r)>>]]
        : r \in Respostas}

\* The ways st.session_state.chat.send_message(prompt) followed by
\* resposta.text can end.  "retido": the response holds no text and
\* resposta.text raises; whether the context then recorded the turn is
\* up to the client library.
send_message(c, prompt) ==
    {[fim |-> "ok", texto |-> r,
      chat |-> [c EXCEPT !.history =
                   @ \o <<Msg("user", prompt), Msg("model", r)>>]]
        : r \in Respostas}
    \cup {[fim |-> "ErroDeServico", texto |-> "", chat |-> c],
          [fim |-> "retido", texto |-> "", chat |-> c],
          [fim |-> "retido", texto |-> "",
           chat |-> [c EXCEPT !.history =
                        @ \o <<Msg("user", prompt), Msg("model", "")>>]]}

\* Line 135: the user's entry is appended before the call.
AnexarUsuario(m, prompt) == Append(m, Msg("user", prompt))

\* The reply is logged under the user's role.
AnexarResposta_mut(m, texto) == Append(m, Msg("user", texto))

\* Line 146: the reply is appended after the call returned its text.
AnexarResposta(m, texto) == Append(m, Msg("assistant", texto))

\* A submission in the chat input, offered when 'mensagens' is in
\* st.session_state: lines 133-149.
EnviarMensagem(s, prompt) ==
    /\ "mensagens" \in chaves[s]
    \* an empty submission grows nothing and is never cut off
    /\ prompt # "" => /\ Len(mensagens[s]) < MaxMensagens
                      /\ Len(chat[s].history) <= MaxHistory
    /\ UNCHANGED <<chaves, personagens_usados, personagem_secreto, cache,
                   rodadas>>
    /\ IF prompt = ""
       THEN \* the walrus test of line 133 is false
            /\ UNCHANGED <<mensagens, chat>>
            /\ ultimo' = [ultimo EXCEPT ![s] =
                   Evento("mensagem", "vazio", <<>>, Nenhum, FALSE, prompt)]
       ELSE IF "chat" \notin chaves[s]
       THEN \* st.session_state.chat raises AttributeError at line 141
            /\ mensagens' = Gravar(mensagens, s,
                   AnexarUsuario(mensagens[s], prompt))
            /\ UNCHANGED chat
            /\ ultimo' = [ultimo EXCEPT ![s] =
                   Evento("mensagem", "AttributeError", <<>>, Nenhum, FALSE,
                          prompt)]
       ELSE \E r \in send_message(chat[s], prompt) :
            /\ chat' = Gravar(chat, s, r.chat)
            /\ mensagens' = Gravar(mensagens, s,
                   IF r.fim = "ok"
                   THEN AnexarResposta(AnexarUsuario(mensagens[s], prompt),
                                       r.texto)
                   ELSE AnexarUsuario(mensagens[s], prompt))
            /\ ultimo' = [ultimo EXCEPT ![s] =
                   Evento("mensagem", r.fim, <<>>, Nenhum, TRUE, prompt)]

\* ---------------------------------------------------------- specification
\* One player: the other session is never opened.
Jogadores == {1}

Next ==
    \E s \in Jogadores :
        \/ IniciarNovoJogo(s)
        \/ \E prompt \in Prompts : EnviarMensagem(s, prompt)

Spec == Init /\ [][Next]_vars

\* Two players, each in a session of their own, their script runs
\* interleaved in any order.
IniciarDuas(s) ==
    /\ IniciarNovoJogo(s)
    /\ Len(rodadas'[s]) <= MaxRodadasDuas

EnviarDuas(s, prompt) ==
    /\ prompt # "" => /\ Len(mensagens[s]) <= MaxMensagensDuas
                      /\ Len(chat[s].history) <= MaxHistoryDuas
    /\ EnviarMensagem(s, prompt)

NextDuas ==
    \E s \in Sessoes :
        \/ IniciarDuas(s)
        \/ \E prompt \in Prompts : EnviarDuas(s, prompt)

SpecDuas == Init /\ [][NextDuas]_vars

\* The start requests of two players alone: a message changes neither a
\* used-list nor the table of the generator.
NextGeracao == \E s \in Sessoes : IniciarNovoJogo(s)

SpecGeracao == Init /\ [][NextGeracao]_vars

\* ------------------------------------------------------------ properties
\* The names of a sequence of personas.
Nomes(r) == [i \in 1..Len(r) |-> r[i].campos["personagem"]]

\* The request that ended last in session s was a start request that failed.
InicioFalhou(ev) == ev.op = "iniciar" /\ ev.fim # "ok"

\* The round-state of a session: NoRound or RoundActive.
RoundActive(s) == "chat" \in chaves[s]

\* C1: a start request that fails at persona generation (the call raises
\* or the payload is refused) leaves the used-list, the message log, the
\* active persona and the conversation context as they were, and the
\* session in the same state NoRound or RoundActive.
C1_FalhaNaoAlteraEstado ==
    [][\A s \in Sessoes :
          InicioFalhou(ultimo'[s]) =>
              /\ mensagens'[s] = mensagens[s]
              /\ personagens_usados'[s] = personagens_usados[s]
              /\ personagem_secreto'[s] = personagem_secreto[s]
              /\ chat'[s] = chat[s]
              /\ RoundActive(s)' = RoundActive(s)]_vars

\* The conversation call of the last submission raised or withheld its
\* text.
ConversaFalhou(ev) ==
    ev.op = "mensagem" /\ ev.fim \in {"ErroDeServico", "retido"}

\* C2: when the conversation call for a submitted message raises or
\* withholds its response, the earlier entries stay, the user's entry and
\* then exactly one assistant (fallback) entry are appended, so the log
\* grows by 2, and the session keeps its conversation context.
C2_FalhaAnexaFallback ==
    [][\A s \in Sessoes :
          (ConversaFalhou(ultimo'[s]) /\ mensagens'[s] # mensagens[s]) =>
              LET n == Len(mensagens[s]) IN
              /\ Len(mensagens'[s]) = n + 2
              /\ SubSeq(mensagens'[s], 1, n) = mensagens[s]
              /\ mensagens'[s][n + 1] = Msg("user", ultimo'[s].prompt)
              /\ mensagens'[s][n + 2].role = "assistant"
              /\ chat'[s].id = chat[s].id]_vars

\* C3: every failure of the generation call ends iniciar_novo_jogo with the
\* error notice (st.error) and a normal return; none leaves it as an
\* uncaught exception.
C3_FalhaDeGeracaoCapturada ==
    \A s \in Sessoes : InicioFalhou(ultimo[s]) => ultimo[s].fim = "st.error"

\* C4: whenever the chat input is offered ('mensagens' is in the session
\* state) a conversation context created by a successful initialization
\* exists.
C4_ChatInputSoComContexto ==
    \A s \in Sessoes :
        "mensagens" \in chaves[s] =>
            /\ "chat" \in chaves[s]
            /\ chat[s] # SemChat
            /\ rodadas[s] # <<>>

\* C5: a non-empty message log starts with the assistant greeting of the
\* active persona, and a conversation context is active.
C5_LogComecaPelaSaudacao ==
    \A s \in Sessoes :
        mensagens[s] # <<>> =>
            /\ "personagem_secreto" \in chaves[s]
            /\ "chat" \in chaves[s]
            /\ mensagens[s][1] =
                   Msg("assistant", personagem_secreto[s].campos["saudacao"].s)

\* s2 extends s1.
Prefixo(s1, s2) == Len(s1) <= Len(s2) /\ SubSeq(s2, 1, Len(s1)) = s1

\* C6: the used-list is append-only: it holds the names of the personas of
\* the successful rounds, in order; every step keeps the old list as a
\* prefix, and a step that starts no round leaves it unchanged.
C6_UsadosSoCresce ==
    [][\A s \in Sessoes :
          /\ personagens_usados'[s] = Nomes(rodadas'[s])
          /\ Prefixo(personagens_usados[s], personagens_usados'[s])
          /\ Len(rodadas'[s]) = Len(rodadas[s]) =>
                 personagens_usados'[s] = personagens_usados[s]]_vars

\* Two rounds were started, messages were exchanged in the second, and a
\* start request then failed.
C6_Witness ==
    \E s \in Sessoes :
        /\ Len(personagens_usados[s]) = 2
        /\ InicioFalhou(ultimo[s])
        /\ chat[s].history # <<>>

\* C7: the active persona always has its four fields as non-empty strings.
C7_PersonaCompleta ==
    \A s \in Sessoes :
        "personagem_secreto" \in chaves[s] =>
            \A k \in required_keys :
                /\ personagem_secreto[s].campos[k].t = "str"
                /\ personagem_secreto[s].campos[k].s # ""

\* C8 as stated: the used-list never holds the same name twice.
C8_SemRepeticao ==
    \A s \in Sessoes :
        \A i, j \in 1..Len(personagens_usados[s]) :
            personagens_usados[s][i] = personagens_usados[s][j] => i = j

\* The personas of the rounds started before the last start request.
RodadasAntes(s) ==
    IF ultimo[s].fim = "ok"
    THEN SubSeq(rodadas[s], 1, Len(rodadas[s]) - 1)
    ELSE rodadas[s]

\* C8 amended: every start request gives the generator the names of all
\* earlier rounds of the session, in order, and on success the returned
\* name is appended to that list, whether or not it is already in it.
C8_ListaCompletaAoGerador ==
    \A s \in Sessoes :
        ultimo[s].op = "iniciar" =>
            /\ ultimo[s].lista = Nomes(RodadasAntes(s))
            /\ ultimo[s].fim = "ok" =>
                   personagens_usados[s] =
                       Append(ultimo[s].lista,
                              ultimo[s].payload.campos["personagem"])

\* A second round was started with the persona of the first.
C8_Witness ==
    \E s \in Sessoes :
        /\ ultimo[s].op = "iniciar" /\ ultimo[s].fim = "ok"
        /\ Len(personagens_usados[s]) = 2
        /\ personagens_usados[s][1] = personagens_usados[s][2]

\* How a start request ends for the player.
Desfecho(r) ==
    IF r.fim = "retorna" /\ Valido(r.payload) THEN "sucesso" ELSE "falha"

\* C9: after a start request, the outcomes the next start request of the
\* session can have with memoization are those it can have without it; so
\* after a refused payload a further request can still succeed.
C9_MemoizacaoSoOtimiza ==
    \A s \in Sessoes :
        ultimo[s].op = "iniciar" =>
            LET lista == ListaAEvitar(personagens_usados[s]) IN
            {Desfecho(r) : r \in gerar_novo_personagem(cache, lista)}
                = {Desfecho(r) : r \in ChamadaRemota(lista)}

\* C10: right after a successful round initialization the log is the one
\* entry {assistant, saudacao of the new persona}, and the conversation
\* context is a new, empty one seeded with the new persona.
C10_RodadaComecaLimpa ==
    [][\A s \in Sessoes :
          Len(rodadas'[s]) > Len(rodadas[s]) =>
              LET p == rodadas'[s][Len(rodadas'[s])] IN
              /\ mensagens'[s] = <<Msg("assistant", p.campos["saudacao"].s)>>
              /\ personagem_secreto'[s] = p
              /\ chat'[s].sistema = p
              /\ chat'[s].history = <<>>
              /\ chat'[s].id # chat[s].id]_vars

\* A second round was started over a first one.
C10_Witness ==
    \E s \in Sessoes :
        /\ ultimo[s].op = "iniciar" /\ ultimo[s].fim = "ok"
        /\ Len(rodadas[s]) = 2
        /\ Len(mensagens[s]) = 1

\* The state st.session_state holds for session s, but for the log.
Rodada(s) ==
    <<personagens_usados[s], personagem_secreto[s], chat[s], chaves[s]>>

\* C11: in RoundActive a non-empty submission whose conversation call
\* succeeds appends {user, the text} and then {assistant, the returned
\* text} to the log and keeps the earlier entries; an empty submission
\* changes nothing.
C11_TurnoAnexaDois ==
    [][\A s \in Sessoes :
          /\ (ultimo'[s].op = "mensagem" /\ ultimo'[s].fim = "ok"
                /\ mensagens'[s] # mensagens[s]) =>
                 /\ RoundActive(s)
                 /\ ultimo'[s].prompt # ""
                 /\ chat'[s].history # <<>>
                 /\ mensagens'[s] =
                        mensagens[s] \o
                        <<Msg("user", ultimo'[s].prompt),
                          Msg("assistant",
                              chat'[s].history[Len(chat'[s].history)].content)>>
          /\ (ultimo'[s].op = "mensagem" /\ ultimo'[s].fim = "vazio") =>
                 /\ ultimo'[s].prompt = ""
                 /\ mensagens'[s] = mensagens[s]
                 /\ Rodada(s)' = Rodada(s)]_vars

\* A turn was exchanged after earlier entries, and an empty submission
\* followed.
C11_Witness ==
    \E s \in Sessoes :
        /\ ultimo[s].op = "mensagem" /\ ultimo[s].fim = "vazio"
        /\ Len(mensagens[s]) = 3
        /\ mensagens[s][2].role = "user"
        /\ mensagens[s][3] = Msg("assistant", "Talvez.")

\* C12: a submitted message, whatever its text and however the call ends,
\* leaves the active persona, the used-list and the identity of the
\* conversation context unchanged and the session in RoundActive; a step
\* that changes any of them is a start request.
C12_RodadaNaoTerminaSozinha ==
    [][\A s \in Sessoes :
          \/ /\ personagem_secreto'[s] = personagem_secreto[s]
             /\ personagens_usados'[s] = personagens_usados[s]
             /\ chat'[s].id = chat[s].id
             /\ chat'[s].sistema = chat[s].sistema
             /\ RoundActive(s)' = RoundActive(s)
          \/ /\ ultimo'[s].op = "iniciar" /\ ultimo'[s].fim = "ok"
             /\ Len(rodadas'[s]) = Len(rodadas[s]) + 1]_vars

\* In an active round a message was answered and the next one failed.
C12_Witness ==
    \E s \in Sessoes :
        /\ RoundActive(s)
        /\ ultimo[s].op = "mensagem" /\ ultimo[s].fim = "ErroDeServico"
        /\ chat[s].history # <<>>
        /\ chat[s].sistema = personagem_secreto[s]

\* C14: the active persona, the conversation context and a non-empty
\* used-list exist together or not at all, and when they exist the name
\* of the active persona is the last entry of the used-list.
C14_PersonaChatUsadosJuntos ==
    \A s \in Sessoes :
        /\ ("personagem_secreto" \in chaves[s]) = ("chat" \in chaves[s])
        /\ ("chat" \in chaves[s]) = (chat[s] # SemChat)
        /\ ("chat" \in chaves[s]) = (personagens_usados[s] # <<>>)
        /\ personagens_usados[s] # <<>> =>
               /\ "personagens_usados" \in chaves[s]
               /\ personagem_secreto[s].tipo = "dict"
               /\ personagem_secreto[s].campos["personagem"] =
                      personagens_usados[s][Len(personagens_usados[s])]

\* A start request failed over the second round of a session.
C14_Witness ==
    \E s \in Sessoes :
        /\ InicioFalhou(ultimo[s])
        /\ Len(personagens_usados[s]) = 2
        /\ mensagens[s] = <<>>

\* The log entries a context's history stands for.
ParaLog(h) ==
    [i \in 1..Len(h) |->
        Msg(IF h[i].role = "model" THEN "assistant" ELSE h[i].role,
            h[i].content)]

\* C15: in an active round the log is the greeting of the current persona
\* followed by exactly the turns the current conversation context holds,
\* in order, the roles alternating assistant, user, assistant, ...
C15_LogIgualAoContexto ==
    \A s \in Sessoes :
        RoundActive(s) =>
            /\ mensagens[s] =
                   <<Msg("assistant",
                         personagem_secreto[s].campos["saudacao"].s)>>
                   \o ParaLog(chat[s].history)
            /\ \A i \in 1..Len(mensagens[s]) :
                   mensagens[s][i].role =
                       IF i % 2 = 1 THEN "assistant" ELSE "user"

\* What st.session_state holds for session s.
SessionState(s) ==
    <<chaves[s], mensagens[s], personagens_usados[s], personagem_secreto[s],
      chat[s]>>

\* C13: under every interleaving of the script runs of two sessions, a
\* step changes the used-list, the log, the persona and the context of at
\* most one session, the one whose handler ran; what the sessions share
\* is the table of the generator alone.
C13_SessoesIndependentes ==
    [][\E t \in Sessoes :
          \A s \in Sessoes \ {t} :
              /\ ultimo'[s] = ultimo[s]
              /\ rodadas'[s] = rodadas[s]
              /\ SessionState(s)' = SessionState(s)]_vars

\* Session 1 is in a round with a turn exchanged; session 2 started its
\* round with the persona the table held for the empty list.
C13_Witness ==
    /\ ultimo[1].op = "mensagem" /\ ultimo[1].fim = "ok"
    /\ Len(mensagens[1]) = 3
    /\ ultimo[2].op = "iniciar" /\ ultimo[2].fim = "ok"
    /\ ~ultimo[2].remoto
    /\ Len(mensagens[2]) = 1
    /\ chat[1].id # chat[2].id

\* Sessions were given the same personas, round for round.
MesmasRodadas ==
    \A s, t \in Sessoes :
        \A i \in 1..Len(rodadas[s]) :
            i <= Len(rodadas[t]) => rodadas[s][i] = rodadas[t][i]

\* C16: once a call of the generator with list L has returned R, every
\* later call with L, in any session, returns R without a remote request
\* and the table keeps its entries; so two sessions that start from the
\* empty used-list are given the same sequence of personas.
C16_GeracaoMemoizada ==
    [][/\ \A s \in Sessoes :
            (/\ ultimo'[s] # ultimo[s]
             /\ ultimo'[s].op = "iniciar"
             /\ CacheTem(cache, ultimo'[s].lista)) =>
                /\ ultimo'[s].fim \in {"ok", "st.error"}
                /\ ultimo'[s].payload = CacheDe(cache, ultimo'[s].lista)
                /\ ~ultimo'[s].remoto
                /\ cache' = cache
       /\ cache \subseteq cache'
       /\ \A e1, e2 \in cache' : e1.lista = e2.lista => e1 = e2
       /\ MesmasRodadas']_vars

\* Both sessions played two rounds, the second session served from the
\* table both times.
C16_Witness ==
    /\ Len(rodadas[1]) = 2
    /\ rodadas[2] = rodadas[1]
    /\ ultimo[1].op = "iniciar" /\ ultimo[1].remoto
    /\ ultimo[2].op = "iniciar" /\ ultimo[2].fim = "ok" /\ ~ultimo[2].remoto
    /\ Cardinality(cache) = 2

====
